---- MODULE Spec2Model ----
(***************************************************************************)
(* A model of the book catalog service of src/src/main.rs: the in-memory   *)
(* registry Books(Vec<Book>), the persisted file books.json, the mutex     *)
(* that guards the registry, and the request handlers get_all, get,        *)
(* search and add, each handler being a small sequential process.          *)
(*                                                                         *)
(* A title (field `name`) is a sequence of one-character strings, so that  *)
(* str::contains is computed and not assumed.  isbn and author are opaque  *)
(* strings.                                                                *)
(***************************************************************************)
EXTENDS Naturals, Sequences, FiniteSets, TLC

VARIABLES
    phase,   \* "boot" before rocket() ran, then "serving" or "crashed"
    file,    \* books.json on disk
    books,   \* Books.0, the registry held in the managed Mutex
    lock,    \* the set of handlers holding the MutexGuard (empty = unlocked)
    pc,      \* where each handler stands in its request
    req,     \* the request each handler is serving
    book,    \* add: the Book built by get_book
    found,   \* Books::add: did self.find(isbn) return Ok
    resp,    \* the response each handler produced last
    poisoned, \* the Mutex is poisoned: a holder of its guard panicked
    stdout   \* the lines the process has printed, as a set

vars == <<phase, file, books, lock, pc, req, book, found, resp, poisoned, stdout>>

---------------------------------------------------------------------------
(* Bounds of the model *)

MaxFile == 2         \* records in books.json at startup

Handlers == {"h1", "h2"}     \* the requests served at the same time

ISBNs == {"111", "222"}
\* Titles the remote catalog answers with, and the search strings of clients
Titles == {<<"H", "p">>, <<"H", "a", "p">>}
Queries == {<<"H", "p">>, <<"p">>, <<"z">>}

---------------------------------------------------------------------------
(* Book and Error values *)

Book_new(isbn, name, author) == [isbn |-> isbn, name |-> name, author |-> author]

NoBook == [isbn |-> "", name |-> <<>>, author |-> ""]

\* The records that may be on file when the process starts
FileRecords ==
    { Book_new("111", <<"h", "p">>, "Y"), Book_new("111", <<"H", "a", "p">>, "X"),
      Book_new("222", <<"H", "p">>, "X") }

RECURSIVE SeqsUpTo(_, _)
SeqsUpTo(S, n) ==
    IF n = 0 THEN {<<>>}
    ELSE LET shorter == SeqsUpTo(S, n - 1)
         IN  shorter \cup { Append(s, x) : s \in shorter, x \in S }

\* Responses, one shape for all of them
Response(status, msg, isbn, body) ==
    [status |-> status, msg |-> msg, isbn |-> isbn, body |-> body]

NoResp == Response("none", "", "", <<>>)

\* Error { message: format!("Book with ISBN {} not found", isbn) }
ErrNotFound(isbn) == [message |-> "Book with ISBN {} not found", isbn |-> isbn]
ErrExists == [message |-> "Book already exists in DB", isbn |-> ""]
ErrNoBook == [message |-> "No book found", isbn |-> ""]

\* Result<_, Error>; val is the sequence of books an Ok carries (empty for Ok(()))
Ok(v) == [ok |-> TRUE, val |-> v, err |-> [message |-> "", isbn |-> ""]]
Err(e) == [ok |-> FALSE, val |-> <<>>, err |-> e]

---------------------------------------------------------------------------
(* impl Books *)

\* for book in &self.0 { if isbn == book.isbn { return Ok(book.clone()) } } Err(..)
RECURSIVE find_from(_, _, _)
find_from(list, isbn, k) ==
    IF k > Len(list) THEN Err(ErrNotFound(isbn))
    ELSE IF isbn = list[k].isbn THEN Ok(<<list[k]>>)
    ELSE find_from(list, isbn, k + 1)

\* A scan that gives up after the first record
find_FirstOnly(list, isbn) ==
    IF list # <<>> /\ isbn = list[1].isbn THEN Ok(<<list[1]>>)
    ELSE Err(ErrNotFound(isbn))

\* A scan that starts one record late
find_SkipsFirst(list, isbn) == find_from(list, isbn, 2)

find(list, isbn) == find_from(list, isbn, 1)

\* haystack[k+1 .. k+Len(needle)] = needle
starts_with_at(hay, needle, k) ==
    /\ k + Len(needle) <= Len(hay)
    /\ \A j \in 1..Len(needle) : hay[k + j] = needle[j]

\* str::contains: scan the offsets from the left
RECURSIVE contains_from(_, _, _)
contains_from(hay, needle, k) ==
    IF k + Len(needle) > Len(hay) THEN FALSE
    ELSE IF starts_with_at(hay, needle, k) THEN TRUE
    ELSE contains_from(hay, needle, k + 1)

\* A match that ignores the case of the letters
Lower(c) == IF c = "H" THEN "h" ELSE c
RECURSIVE LowerAll(_)
LowerAll(t) == IF t = <<>> THEN <<>> ELSE <<Lower(Head(t))>> \o LowerAll(Tail(t))
contains_IgnoreCase(hay, needle) ==
    contains_from(LowerAll(hay), LowerAll(needle), 0)

contains(hay, needle) == contains_from(hay, needle, 0)

\* self.0.iter().filter(|book| book.name.contains(name)).cloned().collect()
RECURSIVE filter_from(_, _, _)
filter_from(list, name, k) ==
    IF k > Len(list) THEN <<>>
    ELSE IF contains(list[k].name, name)
         THEN <<list[k]>> \o filter_from(list, name, k + 1)
         ELSE filter_from(list, name, k + 1)

search(list, name) ==
    LET matched == filter_from(list, name, 1)
    IN  IF matched = <<>> THEN Err(ErrNoBook) ELSE Ok(matched)

get_all(list) == list

\* An insert at the front
push_Front(list, b) == <<b>> \o list

\* self.0.push(book)
push(list, b) == Append(list, b)

---------------------------------------------------------------------------
(* books.json: load_books, save_books *)

\* A file: does it exist, is its text JSON, and the array of objects it holds.
\* An object is the sequence of its <<key, value>> members.
FileOf(exists, json, items) == [exists |-> exists, json |-> json, items |-> items]

HasKey(obj, key) == \E k \in 1..Len(obj) : obj[k][1] = key
Member(obj, key) == obj[CHOOSE k \in 1..Len(obj) : obj[k][1] = key][2]

\* A serializer that names the title field "title"
RECURSIVE to_string_TitleKey(_)
to_string_TitleKey(list) ==
    IF list = <<>> THEN <<>>
    ELSE << << <<"isbn", Head(list).isbn>>, <<"title", Head(list).name>>,
               <<"author", Head(list).author>> >> >>
             \o to_string_TitleKey(Tail(list))

\* serde_json::to_string(&books): each Book as {"isbn":..,"name":..,"author":..}
RECURSIVE to_string(_)
to_string(list) ==
    IF list = <<>> THEN <<>>
    ELSE << << <<"isbn", Head(list).isbn>>, <<"name", Head(list).name>>,
               <<"author", Head(list).author>> >> >> \o to_string(Tail(list))

\* Does serde_json::from_str::<Vec<Book>> accept the text
from_str_ok(f) ==
    /\ f.json
    /\ \A k \in 1..Len(f.items) :
          HasKey(f.items[k], "isbn") /\ HasKey(f.items[k], "name")
              /\ HasKey(f.items[k], "author")

RECURSIVE from_items(_)
from_items(items) ==
    IF items = <<>> THEN <<>>
    ELSE << Book_new(Member(Head(items), "isbn"), Member(Head(items), "name"),
                     Member(Head(items), "author")) >> \o from_items(Tail(items))

from_str(f) == from_items(f.items)

\* A load that takes a text that is not JSON for an empty registry
load_books_ok_OrDefault(f) ==
    /\ f.exists
    /\ \A k \in 1..Len(f.items) :
          HasKey(f.items[k], "isbn") /\ HasKey(f.items[k], "name")
              /\ HasKey(f.items[k], "author")

\* fs::read_to_string(..).unwrap(); serde_json::from_str(..).unwrap()
load_books_ok(f) == f.exists /\ from_str_ok(f)
load_books(f) == from_str(f)

\* fs::write creates or truncates the file, then writes the text.  When it
\* fails the file is as it was (the open failed) or is left cut short.
FileWritten(list) == FileOf(TRUE, TRUE, to_string(list))
FileTorn == FileOf(TRUE, FALSE, <<>>)
\* println!("Error writing file: {}", e)
ErrorWritingFile == "Error writing file"
\* The outcomes of save_books: the file it leaves and the lines it prints
Saved(f, printed) == [file |-> f, printed |-> printed]
save_books(old, list) ==
    {Saved(FileWritten(list), {}), Saved(old, {ErrorWritingFile}),
     Saved(FileTorn, {ErrorWritingFile})}

\* What books.json may be when the process starts
FileMissing == FileOf(FALSE, FALSE, <<>>)
FileBadShape == FileOf(TRUE, TRUE, << << <<"isbn", "111">>, <<"name", <<"H", "p">> >> >> >>)
InitFiles ==
    {FileMissing, FileTorn, FileBadShape}
        \cup { FileWritten(l) : l \in SeqsUpTo(FileRecords, MaxFile) }

---------------------------------------------------------------------------
(* get_book: the lookup at the remote catalog *)

\* What the remote call yields: a transport error or a text that is not JSON
\* (failed), else the "items" array (absent when nothing matched), each item
\* with the title and the authors of its volumeInfo (absent when has* is FALSE).
Reply(failed, hasItems, items) ==
    [failed |-> failed, hasItems |-> hasItems, items |-> items]
Volume(hasTitle, title, hasAuthors, authors) ==
    [hasTitle |-> hasTitle, title |-> title, hasAuthors |-> hasAuthors,
     authors |-> authors]

Replies ==
    {Reply(TRUE, FALSE, <<>>), Reply(FALSE, FALSE, <<>>), Reply(FALSE, TRUE, <<>>)}
        \cup { Reply(FALSE, TRUE, <<Volume(FALSE, <<>>, TRUE, <<"X">>)>>) }
        \cup { Reply(FALSE, TRUE, <<Volume(TRUE, t, FALSE, <<>>)>>) : t \in Titles }
        \cup { Reply(FALSE, TRUE, <<Volume(TRUE, t, TRUE, a)>>) :
                  t \in Titles, a \in {<<>>, <<"X">>, <<"X", "Y">>} }

\* Every unwrap() and index of get_book that the reply lets through
get_book_ok(r) ==
    /\ ~r.failed                         \* reqwest::get(..).unwrap(), from_str(..).unwrap()
    /\ r.hasItems                        \* data["items"].as_array().unwrap()
    /\ Len(r.items) > 0                  \* &items[0]
    /\ r.items[1].hasTitle               \* volume_info["title"].as_str().unwrap()
    /\ r.items[1].hasAuthors             \* volume_info["authors"]
    /\ Len(r.items[1].authors) > 0       \* [0].as_str().unwrap()

get_book(isbn, r) == Book_new(isbn, r.items[1].title, r.items[1].authors[1])

---------------------------------------------------------------------------
(* The requests *)

\* routes![get_all, get, add, search]
Routes == {"get_all", "get", "add", "search"}

Request(kind, isbn, q) == [kind |-> kind, isbn |-> isbn, q |-> q]
NoReq == Request("none", "", <<>>)

\* What a client may send: the four routes and POST /remove
Requests ==
    {Request("get_all", "", <<>>)}
        \cup { Request(k, i, <<>>) : k \in {"get", "add", "remove"}, i \in ISBNs }
        \cup { Request("search", "", q) : q \in Queries }

\* Json(..), BadRequest(Some(Json(error))), the String of add
Json(list) == Response("200", "", "", list)
BadRequest(e) == Response("400", e.message, e.isbn, <<>>)
Text(msg) == Response("200", msg, "", <<>>)
\* Rocket answers a handler's panic with 500 and an unmounted path with 404
Panicked == Response("500", "", "", <<>>)
NotRouted == Response("404", "", "", <<>>)

Idle(h) == pc[h] \in {"idle", "done"}

---------------------------------------------------------------------------
(* Startup *)

Init ==
    /\ phase = "boot"
    /\ file \in InitFiles
    /\ books = <<>>
    /\ lock = {}
    /\ pc = [h \in Handlers |-> "idle"]
    /\ req = [h \in Handlers |-> NoReq]
    /\ book = [h \in Handlers |-> NoBook]
    /\ found = [h \in Handlers |-> FALSE]
    /\ resp = [h \in Handlers |-> NoResp]
    /\ poisoned = FALSE
    /\ stdout = {}

\* rocket(): Books::new() loads books.json and the routes are mounted
Launch ==
    /\ phase = "boot"
    /\ load_books_ok(file)
    /\ books' = load_books(file)
    /\ phase' = "serving"
    /\ UNCHANGED <<file, lock, pc, req, book, found, resp, poisoned, stdout>>

\* load_books panics: the process ends before it serves anything
LaunchPanic ==
    /\ phase = "boot"
    /\ ~load_books_ok(file)
    /\ phase' = "crashed"
    /\ UNCHANGED <<file, books, lock, pc, req, book, found, resp, poisoned, stdout>>

---------------------------------------------------------------------------
(* The handlers *)

\* An add that takes the mutex before it looks the book up
Begin_LockFirst(h, r) ==
    /\ phase = "serving"
    /\ Idle(h)
    /\ r.kind \in Routes
    /\ r.kind = "add" => lock = {}
    /\ lock' = IF r.kind = "add" THEN {h} ELSE lock
    /\ req' = [req EXCEPT ![h] = r]
    /\ resp' = [resp EXCEPT ![h] = NoResp]
    /\ pc' = [pc EXCEPT ![h] = IF r.kind = "add" THEN "lookup" ELSE "lock"]
    /\ UNCHANGED <<phase, file, books, book, found, poisoned, stdout>>

\* A request arrives for a handler that serves none
Begin(h, r) ==
    /\ phase = "serving"
    /\ Idle(h)
    /\ r.kind \in Routes
    /\ req' = [req EXCEPT ![h] = r]
    /\ resp' = [resp EXCEPT ![h] = NoResp]
    /\ pc' = [pc EXCEPT ![h] = IF r.kind = "add" THEN "lookup" ELSE "lock"]
    /\ UNCHANGED <<phase, file, books, lock, book, found, poisoned, stdout>>

\* No route matches the request
NoRoute(h, r) ==
    /\ phase = "serving"
    /\ Idle(h)
    /\ r.kind \notin Routes
    /\ req' = [req EXCEPT ![h] = r]
    /\ resp' = [resp EXCEPT ![h] = NotRouted]
    /\ pc' = [pc EXCEPT ![h] = "done"]
    /\ UNCHANGED <<phase, file, books, lock, book, found, poisoned, stdout>>

\* add: let book = get_book(isbn).await, the lookup answers
Lookup(h, r) ==
    /\ pc[h] = "lookup"
    /\ get_book_ok(r)
    /\ book' = [book EXCEPT ![h] = get_book(req[h].isbn, r)]
    /\ pc' = [pc EXCEPT ![h] = "lock"]
    /\ UNCHANGED <<phase, file, books, lock, req, found, resp, poisoned, stdout>>

\* add: get_book panics on the reply.  Unwinding drops a MutexGuard the
\* handler holds, which poisons the Mutex.
LookupPanic(h, r) ==
    /\ pc[h] = "lookup"
    /\ ~get_book_ok(r)
    /\ resp' = [resp EXCEPT ![h] = Panicked]
    /\ pc' = [pc EXCEPT ![h] = "done"]
    /\ lock' = lock \ {h}
    /\ poisoned' = (poisoned \/ h \in lock)
    /\ UNCHANGED <<phase, file, books, req, book, found, stdout>>

\* A lock that does not exclude
CanLock_Always(h) == TRUE

\* books.lock().expect(..): blocks until the mutex is free
CanLock(h) == lock = {}

\* On a poisoned Mutex lock() returns Err and expect(..) panics
Lock(h) ==
    /\ pc[h] = "lock"
    /\ CanLock(h)
    /\ lock' = IF poisoned THEN lock ELSE {h}
    /\ pc' = [pc EXCEPT ![h] = IF poisoned THEN "done" ELSE "store"]
    /\ resp' = [resp EXCEPT ![h] = IF poisoned THEN Panicked ELSE resp[h]]
    /\ UNCHANGED <<phase, file, books, req, book, found, poisoned, stdout>>

\* get_all, get, search: the Store call and the response built from it
ReadResponse(r, list) ==
    IF r.kind = "get_all" THEN Json(get_all(list))
    ELSE IF r.kind = "get"
         THEN LET res == find(list, r.isbn)
              IN  IF res.ok THEN Json(res.val) ELSE BadRequest(res.err)
         ELSE LET res == search(list, r.q)
              IN  IF res.ok THEN Json(res.val) ELSE BadRequest(res.err)

\* A read that moves the records out of the registry
Read_Take(h) ==
    /\ pc[h] = "store"
    /\ req[h].kind \in {"get_all", "get", "search"}
    /\ resp' = [resp EXCEPT ![h] = ReadResponse(req[h], books)]
    /\ books' = IF req[h].kind = "get_all" THEN <<>> ELSE books
    /\ pc' = [pc EXCEPT ![h] = "unlock"]
    /\ UNCHANGED <<phase, file, lock, req, book, found, poisoned, stdout>>

Read(h) ==
    /\ pc[h] = "store"
    /\ req[h].kind \in {"get_all", "get", "search"}
    /\ resp' = [resp EXCEPT ![h] = ReadResponse(req[h], books)]
    /\ pc' = [pc EXCEPT ![h] = "unlock"]
    /\ UNCHANGED <<phase, file, books, lock, req, book, found, poisoned, stdout>>

\* Books::add: match self.find(isbn)
AddFind(h) ==
    /\ pc[h] = "store"
    /\ req[h].kind = "add"
    /\ found' = [found EXCEPT ![h] = find(books, book[h].isbn).ok]
    /\ pc' = [pc EXCEPT ![h] = "matched"]
    /\ UNCHANGED <<phase, file, books, lock, req, book, resp, poisoned, stdout>>

\* A duplicate that is stored all the same
AddExists_Upsert(h) ==
    /\ pc[h] = "matched"
    /\ found[h]
    /\ books' = push(books, book[h])
    /\ \E w \in save_books(file, books') :
          file' = w.file /\ stdout' = stdout \cup w.printed
    /\ resp' = [resp EXCEPT ![h] = Text(ErrExists.message)]
    /\ pc' = [pc EXCEPT ![h] = "unlock"]
    /\ found' = [found EXCEPT ![h] = FALSE]
    /\ book' = [book EXCEPT ![h] = NoBook]
    /\ UNCHANGED <<phase, lock, req, poisoned>>

\* Books::add: Ok(_) => return Err(..); the handler returns error.message
AddExists(h) ==
    /\ pc[h] = "matched"
    /\ found[h]
    /\ resp' = [resp EXCEPT ![h] = Text(ErrExists.message)]
    /\ pc' = [pc EXCEPT ![h] = "unlock"]
    /\ found' = [found EXCEPT ![h] = FALSE]
    /\ book' = [book EXCEPT ![h] = NoBook]
    /\ UNCHANGED <<phase, file, books, lock, req, poisoned, stdout>>

\* An add that takes the push back and reports the error when the write fails
AddPush_Rollback(h) ==
    /\ pc[h] = "matched"
    /\ ~found[h]
    /\ \E w \in save_books(file, push(books, book[h])) :
          /\ file' = w.file
          /\ stdout' = stdout \cup w.printed
          /\ books' = IF w.printed = {} THEN push(books, book[h]) ELSE books
          /\ resp' = [resp EXCEPT ![h] =
                         IF w.printed = {} THEN Text("Success")
                         ELSE Text(ErrorWritingFile)]
    /\ pc' = [pc EXCEPT ![h] = "unlock"]
    /\ book' = [book EXCEPT ![h] = NoBook]
    /\ UNCHANGED <<phase, lock, req, found, poisoned>>

\* A save that runs before the push
AddPush_StaleSave(h) ==
    /\ pc[h] = "matched"
    /\ ~found[h]
    /\ books' = push(books, book[h])
    /\ \E w \in save_books(file, books) :
          file' = w.file /\ stdout' = stdout \cup w.printed
    /\ resp' = [resp EXCEPT ![h] = Text("Success")]
    /\ pc' = [pc EXCEPT ![h] = "unlock"]
    /\ book' = [book EXCEPT ![h] = NoBook]
    /\ UNCHANGED <<phase, lock, req, found, poisoned>>

\* Books::add: Err(_) => push, save_books; Ok(()); the handler returns "Success"
AddPush(h) ==
    /\ pc[h] = "matched"
    /\ ~found[h]
    /\ books' = push(books, book[h])
    /\ \E w \in save_books(file, books') :
          file' = w.file /\ stdout' = stdout \cup w.printed
    /\ resp' = [resp EXCEPT ![h] = Text("Success")]
    /\ pc' = [pc EXCEPT ![h] = "unlock"]
    /\ book' = [book EXCEPT ![h] = NoBook]
    /\ UNCHANGED <<phase, lock, req, found, poisoned>>

\* A guard that is never dropped
Unlock_Leak(h) ==
    /\ pc[h] = "unlock"
    /\ pc' = [pc EXCEPT ![h] = "done"]
    /\ UNCHANGED <<phase, file, books, lock, req, book, found, resp, poisoned, stdout>>

\* The MutexGuard is dropped at the end of the handler's statement
Unlock(h) ==
    /\ pc[h] = "unlock"
    /\ lock' = lock \ {h}
    /\ pc' = [pc EXCEPT ![h] = "done"]
    /\ UNCHANGED <<phase, file, books, req, book, found, resp, poisoned, stdout>>

Next ==
    \/ Launch
    \/ LaunchPanic
    \/ \E h \in Handlers :
          \/ \E r \in Requests : Begin(h, r)
          \/ \E r \in Requests : NoRoute(h, r)
          \/ \E r \in Replies : Lookup(h, r)
          \/ \E r \in Replies : LookupPanic(h, r)
          \/ Lock(h)
          \/ Read(h)
          \/ AddFind(h)
          \/ AddExists(h)
          \/ AddPush(h)
          \/ Unlock(h)

Spec == Init /\ [][Next]_vars

---------------------------------------------------------------------------
(* Concurrent adds: the service was started on an empty books.json and     *)
(* every handler has received one POST /add; no further request arrives.   *)

RaceInit ==
    /\ phase = "serving"
    /\ file = FileWritten(<<>>)
    /\ books = load_books(file)
    /\ lock = {}
    /\ pc = [h \in Handlers |-> "lookup"]
    /\ req \in [Handlers -> { Request("add", i, <<>>) : i \in ISBNs }]
    /\ book = [h \in Handlers |-> NoBook]
    /\ found = [h \in Handlers |-> FALSE]
    /\ resp = [h \in Handlers |-> NoResp]
    /\ poisoned = FALSE
    /\ stdout = {}

\* What a handler does once its lookup has answered
AddStep(h) ==
    \/ Lock(h)
    \/ AddFind(h)
    \/ AddExists(h)
    \/ AddPush(h)
    \/ Unlock(h)

RaceNext ==
    \E h \in Handlers :
        \/ \E r \in Replies : Lookup(h, r)
        \/ \E r \in Replies : LookupPanic(h, r)
        \/ AddStep(h)

RaceSpec == RaceInit /\ [][RaceNext]_vars

\* A handler that can take a step takes one in the end: its thread is
\* scheduled, and a mutex that stays free is acquired.
FairRaceSpec == RaceSpec /\ \A h \in Handlers : WF_vars(AddStep(h))

---------------------------------------------------------------------------
(* Properties *)

Has(list, isbn) == \E k \in 1..Len(list) : list[k].isbn = isbn
Count(list, isbn) == Cardinality({k \in 1..Len(list) : list[k].isbn = isbn})
NoDup(list) ==
    \A j, k \in 1..Len(list) : list[j].isbn = list[k].isbn => j = k

Success == Text("Success")
AlreadyExists == Text("Book already exists in DB")

\* The handler is inside a Store operation (the guard is alive)
InStore(h) == pc[h] \in {"store", "matched", "unlock"}
\* The handler is inside Books::add
InAdd(h) == pc[h] \in {"store", "matched"} /\ req[h].kind = "add"

\* C1: while the service runs, a registry without two records of one isbn
\* stays without, whatever step the handlers take.
C1_Uniqueness ==
    [][(phase = "serving" /\ NoDup(books)) => NoDup(books')]_vars

\* Two adds of one isbn were answered, one "Success", one already exists,
\* and the registry has no duplicate.
C1_Witness ==
    /\ NoDup(books) /\ Len(books) >= 2
    /\ \E h, g \in Handlers :
          /\ pc[h] = "unlock" /\ resp[h] = AlreadyExists
          /\ pc[g] = "done" /\ resp[g] = Success /\ req[g] = req[h]

\* C2: while a handler is inside Books::add with a book whose isbn is in the
\* registry, no step changes the registry or the file, and the add leaves
\* with the answer "Book already exists in DB".
C2_DuplicateAdd ==
    [][\A h \in Handlers :
          (InAdd(h) /\ Has(books, book[h].isbn)) =>
              /\ books' = books
              /\ file' = file
              /\ pc'[h] \in {"store", "matched", "unlock"}
              /\ pc'[h] = "unlock" => resp'[h] = AlreadyExists]_vars

\* A duplicate add has been answered while the file differs from the registry
\* (an earlier write failed), so a write would have shown.
C2_Witness ==
    \E h \in Handlers :
        /\ pc[h] = "unlock" /\ req[h].kind = "add" /\ resp[h] = AlreadyExists
        /\ Has(books, req[h].isbn)
        /\ file # FileWritten(books)

\* The add of handler h was looked up and has been answered
Answered(h) == pc[h] = "done" /\ resp[h] # Panicked

\* C3 (RaceSpec): of two answered adds of one isbn that was not registered,
\* one got "Success" and the other "Book already exists in DB", and the
\* registry holds one record of that isbn.
C3_SameIsbnRace ==
    \A h, g \in Handlers :
        (h # g /\ Answered(h) /\ Answered(g) /\ req[h].isbn = req[g].isbn) =>
            /\ {resp[h], resp[g]} = {Success, AlreadyExists}
            /\ Count(books, req[h].isbn) = 1

\* Both handlers added the same isbn and both were answered.
C3_Witness ==
    /\ Answered("h1") /\ Answered("h2")
    /\ req["h1"].isbn = req["h2"].isbn
    /\ Len(books) = 1

\* The Books that get_book can build
LookedUp == { Book_new(i, t, "X") : i \in ISBNs, t \in Titles }

\* Handler h holds the looked-up book b, b's isbn is not registered, and no
\* other handler adds that isbn
ReadyToAdd(h, b) ==
    /\ pc[h] = "lock" /\ book[h] = b
    /\ ~Has(books, b.isbn)
    /\ \A g \in Handlers \ {h} : req[g].isbn # b.isbn

\* C4 (FairRaceSpec): an add whose lookup succeeded, for an isbn that is
\* not registered and that no other handler adds, is in the end answered
\* "Success" with its record in the registry; and a record once in the
\* registry stays in what get_all returns.
C4_DistinctIsbnsSucceed ==
    /\ \A h \in Handlers : \A b \in LookedUp :
          ReadyToAdd(h, b) ~>
              (pc[h] = "done" /\ resp[h] = Success
                  /\ \E k \in 1..Len(get_all(books)) : get_all(books)[k] = b)
    /\ [][\A k \in 1..Len(books) :
              k <= Len(get_all(books')) /\ get_all(books')[k] = books[k]]_vars

\* Two adds of distinct isbns were both answered "Success" and both records
\* are listed.
C4_Witness ==
    /\ pc["h1"] = "done" /\ pc["h2"] = "done"
    /\ resp["h1"] = Success /\ resp["h2"] = Success
    /\ req["h1"].isbn # req["h2"].isbn
    /\ Has(get_all(books), req["h1"].isbn) /\ Has(get_all(books), req["h2"].isbn)

\* C5: a handler that is inside a Store operation holds the mutex, alone.
C5_MutualExclusion ==
    \A h \in Handlers : InStore(h) => lock = {h}

\* One handler is between the find and the push of add, another inside a
\* request waits for the mutex.
C5_Witness ==
    \E h, g \in Handlers :
        /\ pc[h] = "matched" /\ ~found[h]
        /\ pc[g] = "lock"

\* C6: a handler whose lookup is in flight does not hold the mutex, and the
\* mutex is held only by a handler inside a Store operation; so a request
\* that waits for the mutex while the others are idle or looking up finds
\* it free.
C6_EnrichOutsideLock ==
    /\ \A h \in Handlers : pc[h] = "lookup" => h \notin lock
    /\ \A h \in lock : InStore(h)
    /\ \A r \in Handlers :
          (/\ pc[r] = "lock"
           /\ \A g \in Handlers \ {r} : pc[g] \in {"idle", "done", "lookup", "lock"})
              => lock = {}

\* A read is inside the Store while another handler's lookup is pending.
C6_Witness ==
    \E h, g \in Handlers :
        /\ pc[h] = "lookup"
        /\ pc[g] = "unlock" /\ req[g].kind \in {"get_all", "get", "search"}

\* C7: an add whose lookup failed is answered with a failure message; its
\* handler does not panic.
C7_LookupFailureReported ==
    \A h \in Handlers :
        (pc[h] = "done" /\ req[h].kind = "add") =>
            (resp[h] # Panicked /\ resp[h].status = "200" /\ resp[h].msg # "")

\* The registry without its records of the isbn, the others in their order
RECURSIVE Without(_, _)
Without(list, isbn) ==
    IF list = <<>> THEN <<>>
    ELSE IF Head(list).isbn = isbn THEN Without(Tail(list), isbn)
    ELSE <<Head(list)>> \o Without(Tail(list), isbn)

\* Handler h answers a remove request in this step
AnswersRemove(h) ==
    /\ req'[h].kind = "remove" /\ pc'[h] = "done"
    /\ pc[h] # "done" \/ req[h] # req'[h]

\* C8: a remove request for a registered isbn is answered "Success", leaves
\* the registry without that record and the others in their order, writes
\* the registry to the file, and find of the isbn then fails.
C8_RemoveOffered ==
    [][\A h \in Handlers :
          (AnswersRemove(h) /\ Count(books, req'[h].isbn) = 1) =>
              /\ resp'[h] = Success
              /\ books' = Without(books, req'[h].isbn)
              /\ file' = FileWritten(books')
              /\ ~find(books', req'[h].isbn).ok]_vars

\* The first record of the isbn, by position
FirstOf(list, isbn) ==
    list[CHOOSE k \in 1..Len(list) :
            /\ list[k].isbn = isbn
            /\ \A j \in 1..(k - 1) : list[j].isbn # isbn]

\* C9: get answers with the record of the isbn when the registry has one
\* and with "Book with ISBN {isbn} not found" when it has none; the find
\* that follows a successful add returns the added record; and what find
\* returns for an isbn it found stays what it returns ever after.
C9_Find ==
    /\ [](\A h \in Handlers :
             (pc[h] = "unlock" /\ req[h].kind = "get") =>
                 /\ Has(books, req[h].isbn) =>
                        resp[h] = Json(<<FirstOf(books, req[h].isbn)>>)
                 /\ ~Has(books, req[h].isbn) =>
                        resp[h] = Response("400", "Book with ISBN {} not found",
                                           req[h].isbn, <<>>))
    /\ [][\A h \in Handlers :
             (pc[h] = "matched" /\ resp'[h] = Success) =>
                 find(books', book[h].isbn) = Ok(<<book[h]>>)]_vars
    /\ [][\A i \in ISBNs :
             (phase = "serving" /\ find(books, i).ok) =>
                 find(books', i) = find(books, i)]_vars

\* A get finds the record that another handler's add appended behind an
\* older record; and a get of an unregistered isbn is answered not found.
C9_Witness ==
    \E h, g \in Handlers :
        /\ pc[h] = "unlock" /\ req[h].kind = "get" /\ resp[h].status = "200"
        /\ Len(books) >= 2 /\ resp[h].body = <<books[Len(books)]>>
        /\ pc[g] = "done" /\ req[g] = Request("add", req[h].isbn, <<>>)
        /\ resp[g] = Success

\* needle is a run of consecutive letters of hay
IsSubstring(needle, hay) ==
    \E off \in 0..Len(hay) :
        /\ off + Len(needle) <= Len(hay)
        /\ SubSeq(hay, off + 1, off + Len(needle)) = needle

Matching(list, q) == SelectSeq(list, LAMBDA b : IsSubstring(q, b.name))

\* C10: search answers with the records whose title has the query as a run
\* of consecutive letters, case kept, in registry order, and with "No book
\* found" when there is none.
C10_Search ==
    \A h \in Handlers :
        (pc[h] = "unlock" /\ req[h].kind = "search") =>
            IF Matching(books, req[h].q) = <<>>
            THEN resp[h] = Response("400", "No book found", "", <<>>)
            ELSE resp[h] = Json(Matching(books, req[h].q))

\* A search for "Hp" returned a record and left out both a title that
\* differs in case and one where the letters are apart.
C10_Witness ==
    \E h \in Handlers :
        /\ pc[h] = "unlock" /\ req[h].q = <<"H", "p">>
        /\ resp[h].status = "200" /\ Len(resp[h].body) < Len(books)
        /\ \E k \in 1..Len(books) : books[k].name = <<"h", "p">>
        /\ \E k \in 1..Len(books) : books[k].name = <<"H", "a", "p">>

\* C11: while the service runs, no Store operation is in progress and no
\* "Error writing file" line was printed, books.json loads, and loads to
\* the records of the registry in the order of the registry.
C11_PersistedMirror ==
    (phase = "serving" /\ lock = {} /\ ErrorWritingFile \notin stdout) =>
        (load_books_ok(file) /\ load_books(file) = books)

\* An add was answered "Success", every write went through, and the file
\* holds the grown registry.
C11_Witness ==
    /\ lock = {} /\ stdout = {}
    /\ Len(books) >= 2 /\ file = FileWritten(books)
    /\ \E h \in Handlers : pc[h] = "done" /\ resp[h] = Success

\* b is one of the records of list
InSeq(b, list) == \E k \in 1..Len(list) : list[k] = b

\* Handler h leaves Books::add through the arm that pushes
Pushes(h) == pc[h] = "matched" /\ ~found[h] /\ pc'[h] = "unlock"

\* The add of book b took effect in memory and was answered "Success"; list,
\* find and search show the record
AddedInMemory(h, b) ==
    /\ books' = Append(books, b)
    /\ resp'[h] = Success
    /\ InSeq(b, get_all(books'))
    /\ find(books', b.isbn) = Ok(<<b>>)
    /\ InSeq(b, search(books', b.name).val)

\* C12 as amended: an add of a new isbn appends in memory and answers
\* "Success" whether the write fails or not; the record shows in list,
\* find and search.  After a failed write the error line is printed and the
\* file has its previous contents or is left cut short; after a write that
\* went through the file loads to the whole registry.
C12_WriteFailure ==
    [][\A h \in Handlers :
          Pushes(h) =>
              /\ AddedInMemory(h, book[h])
              /\ IF file' = FileWritten(books')
                 THEN load_books_ok(file') /\ load_books(file') = books'
                 ELSE /\ file' \in {file, FileTorn}
                      /\ ErrorWritingFile \in stdout']_vars

\* C12 as stated: after a failed write the file has its previous contents.
C12_FileKept ==
    [][\A h \in Handlers :
          Pushes(h) =>
              /\ AddedInMemory(h, book[h])
              /\ IF file' = FileWritten(books')
                 THEN load_books_ok(file') /\ load_books(file') = books'
                 ELSE /\ file' = file
                      /\ ErrorWritingFile \in stdout']_vars

\* A write failed earlier, and an add that was just answered "Success"
\* wrote the whole registry: file and memory agree again.
C12_Witness ==
    /\ ErrorWritingFile \in stdout
    /\ Len(books) >= 2 /\ load_books_ok(file) /\ load_books(file) = books
    /\ \E h \in Handlers : pc[h] = "unlock" /\ resp[h] = Success

\* C13: whatever the registry holds, the file that a save_books which went
\* through leaves is loaded by load_books, to the same records in the same
\* order.
C13_RoundTrip ==
    phase = "serving" =>
        \A w \in save_books(file, books) :
            w.printed = {} =>
                (load_books_ok(w.file) /\ load_books(w.file) = books)

\* An add has just saved a registry of several differing records, one isbn
\* twice among them.
C13_Witness ==
    /\ Len(books) >= 3 /\ ~NoDup(books) /\ books[1] # books[2]
    /\ file \in { w.file : w \in save_books(file, books) } /\ file # FileTorn
    /\ load_books(file) = books
    /\ \E h \in Handlers : pc[h] = "unlock" /\ resp[h] = Success

\* C14: the registry never holds two records of one isbn.
C14_AlwaysUnique == NoDup(books)

\* C15: while the service runs the registry changes only by an add that is
\* answered "Success", and then from L to L followed by the added book; and
\* get_all answers with the registry as it stands, in its order.
C15_InsertionOrder ==
    /\ [][phase = "serving" =>
             \/ books' = books
             \/ \E h \in Handlers :
                   /\ Pushes(h) /\ resp'[h] = Success
                   /\ Len(books') = Len(books) + 1
                   /\ \A k \in 1..Len(books) : books'[k] = books[k]
                   /\ books'[Len(books')] = book[h]]_vars
    /\ [](\A h \in Handlers :
             (pc[h] = "unlock" /\ req[h].kind = "get_all") =>
                 resp[h] = Response("200", "", "", books))

\* get_all lists two records of differing isbn, the one added by the other
\* handler behind the older one.
C15_Witness ==
    \E h, g \in Handlers :
        /\ pc[h] = "unlock" /\ req[h].kind = "get_all"
        /\ Len(resp[h].body) = 2
        /\ resp[h].body[1].isbn # resp[h].body[2].isbn
        /\ pc[g] = "done" /\ resp[g] = Success
        /\ req[g].isbn = resp[h].body[2].isbn

\* The file is missing, is not JSON, or holds an object that lacks a field
BadFile(f) ==
    \/ ~f.exists
    \/ ~f.json
    \/ \E k \in 1..Len(f.items) :
          \E key \in {"isbn", "name", "author"} :
              \A m \in 1..Len(f.items[k]) : f.items[k][m][1] # key

\* No request was ever taken up
NothingServed ==
    \A h \in Handlers : pc[h] = "idle" /\ req[h] = NoReq /\ resp[h] = NoResp

\* C16: on a bad books.json startup ends in a crash, on a good one in a
\* service whose registry has one record for each object of the file; until
\* the service runs no request is taken up, and after a crash none ever is.
C16_StartupAllOrNothing ==
    /\ [](phase # "serving" => (NothingServed /\ books = <<>>))
    /\ [](phase = "crashed" => BadFile(file))
    /\ [][phase = "boot" =>
             IF BadFile(file) THEN phase' = "crashed"
             ELSE /\ phase' = "serving"
                  /\ Len(books') = Len(file.items)
                  /\ \A k \in 1..Len(books') :
                        /\ <<"isbn", books'[k].isbn>> = file.items[k][1]
                        /\ <<"name", books'[k].name>> = file.items[k][2]
                        /\ <<"author", books'[k].author>> = file.items[k][3]]_vars
    /\ [][phase = "crashed" => phase' = "crashed"]_vars

\* The service started from a file of two records and serves a request.
C16_Witness ==
    /\ phase = "serving" /\ Len(books) = 2
    /\ \E h \in Handlers : pc[h] = "store"

Reads == {"get_all", "get", "search"}

\* C17: the Store call of get_all, get and search leaves the registry and
\* the file as they are, and the response of a read stays what it is for
\* as long as the handler holds it, whatever the other handlers add.
C17_ReadsPure ==
    /\ [][\A h \in Handlers :
             (pc[h] = "store" /\ req[h].kind \in Reads /\ pc'[h] = "unlock") =>
                 (books' = books /\ file' = file)]_vars
    /\ [][\A h \in Handlers :
             (/\ req[h].kind \in Reads /\ req'[h] = req[h]
              /\ pc[h] \in {"unlock", "done"} /\ pc'[h] \in {"unlock", "done"})
                 => resp'[h] = resp[h]]_vars

\* A handler still holds a list that is shorter than the registry, which
\* another handler's add has grown since.
C17_Witness ==
    \E h, g \in Handlers :
        /\ pc[h] = "done" /\ req[h].kind = "get_all"
        /\ resp[h].status = "200" /\ Len(resp[h].body) < Len(books)
        /\ pc[g] = "unlock" /\ resp[g] = Success

\* C18: the step in which a lookup fails leaves the registry, the file and
\* the mutex as they are, the handler does not hold the mutex, and the
\* mutex is never poisoned; so no list, find or search ends in a panic, and
\* a request that waits for the mutex while no handler is inside the Store
\* can take it.
C18_FailedLookupHarmless ==
    /\ [][\A h \in Handlers :
             (pc[h] = "lookup" /\ pc'[h] = "done") =>
                 /\ resp'[h] = Panicked
                 /\ books' = books /\ file' = file
                 /\ lock' = lock /\ h \notin lock'
                 /\ ~poisoned']_vars
    /\ [](~poisoned)
    /\ [](\A h \in Handlers :
             (pc[h] = "done" /\ req[h].kind \in Reads) => resp[h] # Panicked)
    /\ [](\A h \in Handlers :
             (pc[h] = "lock" /\ \A g \in Handlers : ~InStore(g)) =>
                 (lock = {} /\ ~poisoned))

\* One handler's lookup failed; the other handler is inside the Store.
C18_Witness ==
    \E h, g \in Handlers :
        /\ pc[h] = "done" /\ resp[h] = Panicked
        /\ pc[g] = "unlock" /\ lock = {g}

====
